---- MODULE Spec2Model ----
(***************************************************************************)
(* Model of the conversion orchestrator of convertVideo.py                 *)
(* (VideoConverterApp): the worker thread running convert_videos, the two  *)
(* self-rescheduling Tk timer loops (animate_simulated_progress and        *)
(* show_funny_message), the delayed reset_progress and the reset_form and  *)
(* start_conversion handlers of the control loop.                          *)
(*                                                                         *)
(* Threads.  Handlers of the Tk control loop (button commands and `after`  *)
(* callbacks) run one at a time.  The worker thread runs convert_videos    *)
(* statement group by statement group, and may run between the flag check  *)
(* of a timer callback and the rest of that callback; the other handlers   *)
(* share no check-then-act with the worker and are single steps.  A        *)
(* pending `after` callback may fire at any moment (delays are not         *)
(* modelled).  The file list is chosen before the session (select_files    *)
(* is not modelled).                                                       *)
(*                                                                         *)
(* Jobs.  In the orchestrator's model a call of convert_single_video is    *)
(* one step that returns or raises (W851).  What the call does (output     *)
(* path, mkdir, open, the two resizes, write, close) is modelled apart, in *)
(* NextJob, with the loop of convert_videos calling it file after file and *)
(* without the timers, which touch neither the disk nor the engine.        *)
(* _normalize_dimension is an operator over exact fractions.               *)
(*                                                                         *)
(* Numbers.  Progress fractions are integers in units of 1/Den, with Den   *)
(* chosen so that i/total, 0.9*width and 0.02*width are exact for every    *)
(* total in 1..MaxFiles + 1.  Where the rounding of the code's floats      *)
(* matters (the number of ticks to the ceiling), the estimator is modelled *)
(* apart, in NextEstimator, over IEEE 754 doubles.                         *)
(***************************************************************************)
EXTENDS Integers, Sequences, FiniteSets, TLC

\* ---- bounds of the model ----
MaxFiles == 2
MaxBatches == 1
PoolSize == 1
MaxTicks == 1
MaxEmissions == 1

\* ---- program constants ----
HistoryCap == 10
CeilingPct == 90
IncrementPct == 2

RECURSIVE Gcd(_, _)
Gcd(a, b) == IF b = 0 THEN a ELSE Gcd(b, a % b)

RECURSIVE LcmUpTo(_)
LcmUpTo(n) == IF n <= 1 THEN 1 ELSE (LcmUpTo(n - 1) * n) \div Gcd(LcmUpTo(n - 1), n)

\* Unit of the progress scale: the float 1.0 is Den.
Den == 50 * LcmUpTo(MaxFiles + 1)

VARIABLES
    selected_files,                 \* self.selected_files
    output_folder,                  \* self.output_folder ("none" is None)
    format_var,                     \* self.format_var
    simulated_progress,             \* self.simulated_progress
    simulated_progress_running,     \* self.simulated_progress_running
    current_file_start_progress,    \* self.current_file_start_progress
    current_file_end_progress,      \* self.current_file_end_progress
    funny_message_running,          \* self.funny_message_running
    used_messages,                  \* self.used_messages
    animation_running,              \* self.animation_running
    convert_btn,                    \* state of self.convert_btn
    progress_bar,                   \* value last given to self.progress_bar.set
    progress_shown,                 \* progress_bar.grid() / grid_remove()
    progress_label,                 \* text of self.progress_label
    dialog,                         \* title of the last message box shown
    THINKING_MESSAGES,              \* the pool of status messages
    sim_timers,                     \* pending after(150, animate_simulated_progress)
    msg_timers,                     \* pending after(delay, show_funny_message)
    reset_timers,                   \* pending after(3000, reset_progress)
    worker,                         \* the threads started by start_conversion
    nbatches,                       \* number of threads started so far
    scope,                          \* the bounds of the run
    emitted,                        \* the last message logged, if any
    control,                        \* where the control loop is
    dimension,                      \* a value given to _normalize_dimension, and what came back
    options,                        \* fps_var, scale_var, max_width_var, full_width_var
    call,                           \* the activation of convert_single_video
    handles,                        \* the clips the engine holds open
    disk,                           \* the directories and files on disk
    loop,                           \* the for loop of convert_videos, without its timers
    estimator                       \* the estimator of one batch, in doubles

appvars == <<selected_files, output_folder, format_var, simulated_progress,
             simulated_progress_running, current_file_start_progress,
             current_file_end_progress, funny_message_running, used_messages,
             animation_running, convert_btn, progress_bar, progress_shown,
             progress_label>>

timervars == <<sim_timers, msg_timers, reset_timers>>

\* The state of convert_single_video and of what it works on.
jobvars == <<dimension, options, call, handles, disk, loop, estimator>>

vars == <<selected_files, output_folder, format_var, simulated_progress,
          simulated_progress_running, current_file_start_progress,
          current_file_end_progress, funny_message_running, used_messages,
          animation_running, convert_btn, progress_bar, progress_shown,
          progress_label, dialog, THINKING_MESSAGES, sim_timers, msg_timers,
          reset_timers, worker, nbatches, scope, jobvars, emitted,
          control>>

\* The worker threads a session can start: thread b runs batch b.
Batches == 1..(MaxBatches + 1)

\* ---- sequence helpers ----
Range(s) == {s[i] : i \in 1..Len(s)}

IsPrefix(s, t) == Len(s) <= Len(t) /\ s = SubSeq(t, 1, Len(s))

\* The file lists select_files can leave in self.selected_files: file i is
\* the i-th path picked, for 0..MaxFiles picked paths.
FileLists == {[i \in 1..n |-> i] : n \in 0..MaxFiles}

NoLabel == [text |-> "", index |-> 0, total |-> 0]

\* A thread that has not been started, or has returned from convert_videos.
NoWorker == [pc |-> "none", total |-> 0, success_count |-> 0, index |-> 0,
             files |-> <<>>, batch |-> <<>>, outcomes |-> <<>>,
             summary |-> <<>>, message |-> 0, value |-> 0]

DoneWorker == [NoWorker EXCEPT !.pc = "done"]

\* A number given to _normalize_dimension: the fraction num / den, den > 0.
Fraction(num, den) == [num |-> num, den |-> den]

\* No call of _normalize_dimension yet.
NoDimension == [value |-> Fraction(0, 1), results |-> <<>>]

\* The GIF options as __init__ leaves them (lines 424, 455, 496, 520); scale
\* is in hundredths.
DefaultOptions == [fps |-> 15, scale |-> 100, max_width |-> 700,
                   full_width |-> FALSE]

\* No handle: clip = None (line 988).
None == [id |-> 0, w |-> 0, h |-> 0]

\* No file: a source file is its directory, its name and the size of its
\* pictures.
NoFile == [dir |-> <<>>, name |-> <<>>, w |-> 0, h |-> 0]

\* No codec: what write_gif is given (lines 1011-1017).
NoCodecs == [codec |-> "", audio_codec |-> ""]

\* convert_single_video is not running.
NoCall == [pc |-> "none", input |-> NoFile, target_format |-> "",
           output_dir |-> <<>>, output_path |-> [dir |-> <<>>, name |-> <<>>],
           clip |-> None, acquired |-> {}, sizes |-> <<>>,
           codecs |-> NoCodecs, raised |-> FALSE]

\* The engine holds no clip open and has handed out no handle.
NoHandles == [open |-> {}, last |-> 0]

\* A disk without the directories and files of the model.
EmptyDisk == [dirs |-> {}, files |-> {}]

\* The for loop of convert_videos before its first file.
NoLoop == [index |-> 0, results |-> <<>>]

\* No batch for the estimator in doubles.
NoEstimator == [total |-> 0]

\* convert_single_video and _normalize_dimension have not been called.
JobsIdle ==
    /\ dimension = NoDimension
    /\ options = DefaultOptions
    /\ call = NoCall
    /\ handles = NoHandles
    /\ disk = EmptyDisk
    /\ loop = NoLoop
    /\ estimator = NoEstimator

\* Pending callbacks of one timer loop: `fresh` were scheduled after the last
\* stop of the loop, `stale` before it.
NoTimers == [fresh |-> 0, stale |-> 0]

\* The control loop between two callbacks.
Idle == [pc |-> "idle", kind |-> "none"]

\* The runs explored: up to batches batches; in each job the timer drives up
\* to ticks increments of the simulation, and in each batch the timer drives
\* an emission while the history holds up to emissions messages.
Scope(batches, ticks, emissions) ==
    [batches |-> batches, ticks |-> ticks, emissions |-> emissions]

\* The orchestrator after __init__, but for the files, the folder and the
\* format picked.
InitOrchestrator(pool, bounds) ==
    /\ simulated_progress = 0
    /\ simulated_progress_running = FALSE
    /\ current_file_start_progress = 0
    /\ current_file_end_progress = 0
    /\ funny_message_running = FALSE
    /\ used_messages = <<>>
    /\ animation_running = FALSE
    /\ convert_btn = "normal"
    /\ progress_bar = 0
    /\ progress_shown = FALSE
    /\ progress_label = NoLabel
    /\ dialog = "none"
    /\ THINKING_MESSAGES = pool
    /\ sim_timers = NoTimers
    /\ msg_timers = NoTimers
    /\ reset_timers = 0
    /\ worker = [b \in Batches |-> NoWorker]
    /\ nbatches = 0
    /\ scope = bounds
    /\ control = Idle
    /\ emitted = <<>>

\* The orchestrator once files, an output folder and GIF have been picked.
InitMain(lists, pool, bounds) ==
    /\ selected_files \in lists
    /\ output_folder = "out"
    /\ format_var = "GIF"
    /\ InitOrchestrator(pool, bounds)

InitWith(lists, pool, bounds) == InitMain(lists, pool, bounds) /\ JobsIdle

Init ==
    InitWith(FileLists, 1..PoolSize,
             Scope(MaxBatches, MaxTicks, MaxEmissions))

\* ---- pure helpers ----
Min(a, b) == IF a <= b THEN a ELSE b

\* Fractions of one more than the total.
ProgressAtShort(index, total) == (index * Den) \div (total + 1)

\* index / total, on the progress scale (lines 841, 842, 866).
ProgressAt(index, total) == (index * Den) \div total

\* A ceiling that forgets the 0.9 factor.
MaxProgressWhole(start, end) == end

\* max_progress of animate_simulated_progress (line 912).
MaxProgress(start, end) == start + ((end - start) * CeilingPct) \div 100

\* increment of animate_simulated_progress (line 916).
Increment(start, end) == ((end - start) * IncrementPct) \div 100

\* The value animate_simulated_progress writes (lines 914-917), given the
\* value it read.
NextSimulated(value, start, end) ==
    Min(value + Increment(start, end), MaxProgress(start, end))

\* available of get_random_message (line 936).
Available(used) == THINKING_MESSAGES \ Range(used)

\* used_messages after lines 943-946.
Remember(used, message) ==
    LET appended == Append(used, message)
    IN  IF Len(appended) > HistoryCap THEN Tail(appended) ELSE appended

\* A guard that looks at the estimator's flag alone.
ResetGuardProgressOnly == simulated_progress_running

\* The guard of reset_form (line 724).
ResetGuard == animation_running \/ simulated_progress_running

\* A timer loop after its stop: every pending callback predates the stop.
Stopped(timers) == [fresh |-> 0, stale |-> timers.fresh + timers.stale]

Scheduled(timers) == [timers EXCEPT !.fresh = @ + 1]

Fired(timers, kind) == [timers EXCEPT ![kind] = @ - 1]

\* ---- handlers of the control loop ----

\* The simulation of the current job has had fewer than scope.ticks
\* increments since the one start_simulated_progress gave it.
WithinTicks ==
    simulated_progress <
        current_file_start_progress +
            (1 + scope.ticks) * Increment(current_file_start_progress,
                                          current_file_end_progress)

\* A start that does not look at the file list.
StartConversionUnchecked ==
    /\ control = Idle
    /\ convert_btn = "normal"
    /\ nbatches < scope.batches
    /\ convert_btn' = "disabled"
    /\ animation_running' = TRUE
    /\ nbatches' = nbatches + 1
    /\ worker' = [worker EXCEPT ![nbatches + 1] =
                    [NoWorker EXCEPT !.pc = "w818", !.batch = selected_files]]
    /\ UNCHANGED <<selected_files, output_folder, format_var,
                   simulated_progress, simulated_progress_running,
                   current_file_start_progress, current_file_end_progress,
                   funny_message_running, used_messages, progress_bar,
                   progress_shown, progress_label, dialog>>
    /\ UNCHANGED <<THINKING_MESSAGES, timervars,
                   scope, jobvars, control, emitted>>

\* start_conversion: the Convert button's command (a disabled button runs
\* no command).
StartConversion ==
    /\ control = Idle
    /\ convert_btn = "normal"
    /\ IF selected_files = <<>>
       THEN /\ dialog' = "No Files"
            /\ UNCHANGED <<appvars, worker, nbatches>>
       ELSE /\ nbatches < scope.batches
            /\ convert_btn' = "disabled"
            /\ animation_running' = TRUE
            /\ nbatches' = nbatches + 1
            /\ worker' = [worker EXCEPT ![nbatches + 1] =
                            [NoWorker EXCEPT !.pc = "w818", !.batch = selected_files]]
            /\ UNCHANGED <<selected_files, output_folder, format_var,
                           simulated_progress, simulated_progress_running,
                           current_file_start_progress, current_file_end_progress,
                           funny_message_running, used_messages, progress_bar,
                           progress_shown, progress_label, dialog>>
    /\ UNCHANGED <<THINKING_MESSAGES, timervars,
                   scope, jobvars, control, emitted>>

\* reset_form: the restart button's command.
ResetForm ==
    /\ control = Idle
    /\ IF ResetGuard
       THEN /\ dialog' = "Conversion running"
            /\ UNCHANGED <<appvars, sim_timers, msg_timers>>
       ELSE /\ selected_files' = <<>>
            /\ output_folder' = "none"
            /\ format_var' = "MP4"
            /\ progress_label' = NoLabel
            /\ progress_bar' = 0
            /\ progress_shown' = FALSE
            /\ used_messages' = <<>>
            /\ simulated_progress_running' = FALSE
            /\ sim_timers' = Stopped(sim_timers)
            /\ funny_message_running' = FALSE
            /\ msg_timers' = Stopped(msg_timers)
            /\ animation_running' = FALSE
            /\ convert_btn' = "normal"
            /\ UNCHANGED <<simulated_progress, current_file_start_progress,
                           current_file_end_progress, dialog>>
    /\ UNCHANGED <<THINKING_MESSAGES, reset_timers, worker, nbatches,
                   scope, jobvars, control, emitted>>

\* A pending after(150, animate_simulated_progress) fires: line 908.
AnimateSimulatedProgress(kind) ==
    /\ control = Idle
    /\ sim_timers[kind] > 0
    /\ sim_timers' = Fired(sim_timers, kind)
    /\ IF ~simulated_progress_running
       THEN UNCHANGED control
       ELSE /\ WithinTicks
            /\ control' = [pc |-> "a912", kind |-> kind]
    /\ UNCHANGED <<appvars, dialog, THINKING_MESSAGES, msg_timers,
                   reset_timers, worker, nbatches, scope, jobvars, emitted>>

\* Lines 912-923 of the callback: the increment, and the next tick if the
\* flag is still set.
A912 ==
    /\ control.pc = "a912"
    /\ IF simulated_progress <
            MaxProgress(current_file_start_progress, current_file_end_progress)
       THEN /\ simulated_progress' =
                  NextSimulated(simulated_progress,
                                current_file_start_progress,
                                current_file_end_progress)
            /\ progress_bar' = simulated_progress'
       ELSE UNCHANGED <<simulated_progress, progress_bar>>
    /\ sim_timers' = IF simulated_progress_running
                     THEN Scheduled(sim_timers) ELSE sim_timers
    /\ control' = Idle
    /\ UNCHANGED <<selected_files, output_folder, format_var,
                   simulated_progress_running, current_file_start_progress,
                   current_file_end_progress, funny_message_running,
                   used_messages, animation_running, convert_btn,
                   progress_shown, progress_label, dialog, THINKING_MESSAGES,
                   msg_timers, reset_timers, worker, nbatches, scope, jobvars, emitted>>

\* A pending after(delay, show_funny_message) fires: line 951.
ShowFunnyMessage(kind) ==
    /\ control = Idle
    /\ msg_timers[kind] > 0
    /\ msg_timers' = Fired(msg_timers, kind)
    /\ IF ~funny_message_running
       THEN UNCHANGED control
       ELSE /\ Len(used_messages) <= scope.emissions
            /\ control' = [pc |-> "m954", kind |-> kind]
    /\ UNCHANGED <<appvars, dialog, THINKING_MESSAGES, sim_timers,
                   reset_timers, worker, nbatches, scope, jobvars, emitted>>

\* Lines 954-960 of the callback: a message is drawn and logged, and the
\* next emission is scheduled if the flag is still set.
M954 ==
    /\ control.pc = "m954"
    /\ \E message \in (IF Available(used_messages) = {}
                        THEN THINKING_MESSAGES
                        ELSE Available(used_messages)) :
          /\ used_messages' =
                Remember(IF Available(used_messages) = {}
                         THEN <<>> ELSE used_messages, message)
          /\ emitted' = <<message>>
    /\ msg_timers' = IF funny_message_running
                     THEN Scheduled(msg_timers) ELSE msg_timers
    /\ control' = Idle
    /\ UNCHANGED <<selected_files, output_folder, format_var,
                   simulated_progress, simulated_progress_running,
                   current_file_start_progress, current_file_end_progress,
                   funny_message_running, animation_running, convert_btn,
                   progress_bar, progress_shown, progress_label, dialog,
                   THINKING_MESSAGES, sim_timers, reset_timers, worker,
                   nbatches, scope, jobvars>>

\* A pending after(3000, reset_progress) fires.
ResetProgress ==
    /\ control = Idle
    /\ reset_timers > 0
    /\ reset_timers' = reset_timers - 1
    /\ progress_label' = NoLabel
    /\ progress_bar' = 0
    /\ progress_shown' = FALSE
    /\ UNCHANGED <<selected_files, output_folder, format_var,
                   simulated_progress, simulated_progress_running,
                   current_file_start_progress, current_file_end_progress,
                   funny_message_running, used_messages, animation_running,
                   convert_btn, dialog, THINKING_MESSAGES, sim_timers,
                   msg_timers, worker, nbatches,
                   scope, jobvars, control, emitted>>

\* ---- the worker thread: convert_videos ----

Goto(w, pc) == worker' = [worker EXCEPT ![w].pc = pc]

\* Lines 818-827: the locals of convert_videos; the progress bar is reset
\* and shown.
W818(w) ==
    /\ worker[w].pc = "w818"
    /\ progress_bar' = 0
    /\ simulated_progress' = 0
    /\ progress_shown' = TRUE
    /\ worker' = [worker EXCEPT ![w].pc = "w830",
                                ![w].success_count = 0,
                                ![w].total = Len(selected_files)]
    /\ UNCHANGED <<selected_files, output_folder, format_var,
                   simulated_progress_running, current_file_start_progress,
                   current_file_end_progress, funny_message_running,
                   used_messages, animation_running, convert_btn,
                   progress_label, dialog, THINKING_MESSAGES, timervars,
                   nbatches, scope, jobvars, control, emitted>>

\* Line 830: clear the message history.
W830(w) ==
    /\ worker[w].pc = "w830"
    /\ used_messages' = <<>>
    /\ Goto(w, "w927")
    /\ UNCHANGED <<selected_files, output_folder, format_var,
                   simulated_progress, simulated_progress_running,
                   current_file_start_progress, current_file_end_progress,
                   funny_message_running, animation_running, convert_btn,
                   progress_bar, progress_shown, progress_label, dialog,
                   THINKING_MESSAGES, timervars, nbatches,
                   scope, jobvars, control, emitted>>

\* Line 833 -> 927: start_funny_messages sets the flag.
W927(w) ==
    /\ worker[w].pc = "w927"
    /\ funny_message_running' = TRUE
    /\ Goto(w, "w951")
    /\ UNCHANGED <<selected_files, output_folder, format_var,
                   simulated_progress, simulated_progress_running,
                   current_file_start_progress, current_file_end_progress,
                   used_messages, animation_running, convert_btn,
                   progress_bar, progress_shown, progress_label, dialog,
                   THINKING_MESSAGES, timervars, nbatches,
                   scope, jobvars, control, emitted>>

\* Line 928 -> 951-954 -> 936-942: show_funny_message, called on the worker
\* thread, checks the flag and get_random_message picks a message.
W951(w) ==
    /\ worker[w].pc = "w951"
    /\ IF ~funny_message_running
       THEN /\ Goto(w, "w838")
            /\ UNCHANGED used_messages
       ELSE \E message \in (IF Available(used_messages) = {}
                            THEN THINKING_MESSAGES
                            ELSE Available(used_messages)) :
                /\ used_messages' = (IF Available(used_messages) = {}
                                     THEN <<>> ELSE used_messages)
                /\ worker' = [worker EXCEPT ![w].pc = "w943",
                                            ![w].message = message]
    /\ UNCHANGED <<selected_files, output_folder, format_var,
                   simulated_progress, simulated_progress_running,
                   current_file_start_progress, current_file_end_progress,
                   funny_message_running, animation_running, convert_btn,
                   progress_bar, progress_shown, progress_label, dialog,
                   THINKING_MESSAGES, timervars, nbatches,
                   scope, jobvars, control, emitted>>

\* Lines 943-947, 955-960: the message is remembered and logged, and the next
\* emission is scheduled.
W943(w) ==
    /\ worker[w].pc = "w943"
    /\ used_messages' = Remember(used_messages, worker[w].message)
    /\ emitted' = <<worker[w].message>>
    /\ msg_timers' = (IF funny_message_running
                      THEN Scheduled(msg_timers) ELSE msg_timers)
    /\ worker' = [worker EXCEPT ![w].pc = "w838", ![w].message = 0]
    /\ UNCHANGED <<selected_files, output_folder, format_var,
                   simulated_progress, simulated_progress_running,
                   current_file_start_progress, current_file_end_progress,
                   funny_message_running, animation_running, convert_btn,
                   progress_bar, progress_shown, progress_label, dialog,
                   THINKING_MESSAGES, sim_timers, reset_timers, nbatches,
                   scope, jobvars, control>>

\* Lines 838-846: the for loop takes the next file of the list it iterates
\* and sets the file's progress range, or ends.
W838(w) ==
    /\ worker[w].pc = "w838"
    /\ LET files == IF worker[w].index = 0 THEN selected_files
                    ELSE worker[w].files
           index == worker[w].index + 1
       IN  IF worker[w].index < Len(files)
           THEN /\ worker' = [worker EXCEPT ![w].pc = "w899",
                                            ![w].files = files,
                                            ![w].index = index]
                /\ current_file_start_progress' =
                      ProgressAt(index - 1, worker[w].total)
                /\ current_file_end_progress' =
                      ProgressAt(index, worker[w].total)
                /\ simulated_progress' = current_file_start_progress'
                /\ progress_label' = [text |-> "Converting", index |-> index,
                                      total |-> worker[w].total]
           ELSE /\ worker' = [worker EXCEPT ![w].pc = "w870",
                                            ![w].files = files]
                /\ UNCHANGED <<current_file_start_progress,
                               current_file_end_progress, simulated_progress,
                               progress_label>>
    /\ UNCHANGED <<selected_files, output_folder, format_var,
                   simulated_progress_running, funny_message_running,
                   used_messages, animation_running, convert_btn,
                   progress_bar, progress_shown, dialog, THINKING_MESSAGES,
                   timervars, nbatches, scope, jobvars, control, emitted>>

\* Line 849 -> 899: start_simulated_progress sets the flag.
W899(w) ==
    /\ worker[w].pc = "w899"
    /\ simulated_progress_running' = TRUE
    /\ Goto(w, "w908")
    /\ UNCHANGED <<selected_files, output_folder, format_var,
                   simulated_progress, current_file_start_progress,
                   current_file_end_progress, funny_message_running,
                   used_messages, animation_running, convert_btn,
                   progress_bar, progress_shown, progress_label, dialog,
                   THINKING_MESSAGES, timervars, nbatches,
                   scope, jobvars, control, emitted>>

\* Line 900 -> 908-917: animate_simulated_progress, called on the worker
\* thread, checks the flag and computes the next value; at the ceiling it
\* only schedules the next tick (lines 914, 922-923).
W908(w) ==
    /\ worker[w].pc = "w908"
    /\ IF ~simulated_progress_running
       THEN /\ Goto(w, "w851")
            /\ UNCHANGED sim_timers
       ELSE IF simulated_progress <
                 MaxProgress(current_file_start_progress, current_file_end_progress)
            THEN /\ worker' = [worker EXCEPT
                        ![w].pc = "w917",
                        ![w].value = NextSimulated(simulated_progress,
                                                   current_file_start_progress,
                                                   current_file_end_progress)]
                 /\ UNCHANGED sim_timers
            ELSE /\ sim_timers' = Scheduled(sim_timers)
                 /\ Goto(w, "w851")
    /\ UNCHANGED <<appvars, dialog, THINKING_MESSAGES, msg_timers,
                   reset_timers, nbatches, scope, jobvars, control,
                   emitted>>

\* Lines 917-923: the value is stored and published, and the next tick is
\* scheduled.
W917(w) ==
    /\ worker[w].pc = "w917"
    /\ simulated_progress' = worker[w].value
    /\ progress_bar' = worker[w].value
    /\ sim_timers' = (IF simulated_progress_running
                      THEN Scheduled(sim_timers) ELSE sim_timers)
    /\ worker' = [worker EXCEPT ![w].pc = "w851", ![w].value = 0]
    /\ UNCHANGED <<selected_files, output_folder, format_var,
                   simulated_progress_running, current_file_start_progress,
                   current_file_end_progress, funny_message_running,
                   used_messages, animation_running, convert_btn,
                   progress_shown, progress_label, dialog, THINKING_MESSAGES,
                   msg_timers, reset_timers, nbatches, scope, jobvars, control, emitted>>

\* Line 851: convert_single_video returns its output path or raises.
W851(w) ==
    /\ worker[w].pc = "w851"
    /\ \E outcome \in {"ok", "raise"} :
          worker' = [worker EXCEPT
              ![w].pc = (IF outcome = "ok" THEN "w854" ELSE "w863"),
              ![w].outcomes = Append(@, [file |-> worker[w].files[worker[w].index],
                                         outcome |-> outcome])]
    /\ UNCHANGED <<appvars, dialog, THINKING_MESSAGES, timervars, nbatches,
                   scope, jobvars, control, emitted>>

\* A stop that stops the rotator as well.
StopBoth(w, from, to) ==
    /\ worker[w].pc = from
    /\ simulated_progress_running' = FALSE
    /\ funny_message_running' = FALSE
    /\ sim_timers' = Stopped(sim_timers)
    /\ Goto(w, to)
    /\ UNCHANGED <<selected_files, output_folder, format_var,
                   simulated_progress, current_file_start_progress,
                   current_file_end_progress,
                   used_messages, animation_running, convert_btn,
                   progress_bar, progress_shown, progress_label, dialog,
                   THINKING_MESSAGES, msg_timers, reset_timers, nbatches,
                   scope, jobvars, control, emitted>>

\* Lines 854 and 863: stop_simulated_progress.
StopSimulatedProgress(w, from, to) ==
    /\ worker[w].pc = from
    /\ simulated_progress_running' = FALSE
    /\ sim_timers' = Stopped(sim_timers)
    /\ Goto(w, to)
    /\ UNCHANGED <<selected_files, output_folder, format_var,
                   simulated_progress, current_file_start_progress,
                   current_file_end_progress, funny_message_running,
                   used_messages, animation_running, convert_btn,
                   progress_bar, progress_shown, progress_label, dialog,
                   THINKING_MESSAGES, msg_timers, reset_timers, nbatches,
                   scope, jobvars, control, emitted>>

W854(w) == StopSimulatedProgress(w, "w854", "w856")

W863(w) == StopSimulatedProgress(w, "w863", "w866")

\* A success branch that forgets to count.
W856NoCount(w) ==
    /\ worker[w].pc = "w856"
    /\ progress_bar' = current_file_end_progress
    /\ Goto(w, "w838")
    /\ UNCHANGED <<selected_files, output_folder, format_var,
                   simulated_progress, simulated_progress_running,
                   current_file_start_progress, current_file_end_progress,
                   funny_message_running, used_messages, animation_running,
                   convert_btn, progress_shown, progress_label, dialog,
                   THINKING_MESSAGES, timervars, nbatches, scope, jobvars, control, emitted>>

\* Lines 856-861: the result is counted and the bar snaps to the range end.
W856(w) ==
    /\ worker[w].pc = "w856"
    /\ progress_bar' = current_file_end_progress
    /\ worker' = [worker EXCEPT ![w].pc = "w838", ![w].success_count = @ + 1]
    /\ UNCHANGED <<selected_files, output_folder, format_var,
                   simulated_progress, simulated_progress_running,
                   current_file_start_progress, current_file_end_progress,
                   funny_message_running, used_messages, animation_running,
                   convert_btn, progress_shown, progress_label, dialog,
                   THINKING_MESSAGES, timervars, nbatches,
                   scope, jobvars, control, emitted>>

\* An except branch that leaves the loop.
W866Abort(w) ==
    /\ worker[w].pc = "w866"
    /\ progress_bar' = ProgressAt(worker[w].index, worker[w].total)
    /\ Goto(w, "w870")
    /\ UNCHANGED <<selected_files, output_folder, format_var,
                   simulated_progress, simulated_progress_running,
                   current_file_start_progress, current_file_end_progress,
                   funny_message_running, used_messages, animation_running,
                   convert_btn, progress_shown, progress_label, dialog,
                   THINKING_MESSAGES, timervars, nbatches, scope, jobvars, control, emitted>>

\* Lines 864-867: the except branch advances the bar and the loop goes on.
W866(w) ==
    /\ worker[w].pc = "w866"
    /\ progress_bar' = ProgressAt(worker[w].index, worker[w].total)
    /\ Goto(w, "w838")
    /\ UNCHANGED <<selected_files, output_folder, format_var,
                   simulated_progress, simulated_progress_running,
                   current_file_start_progress, current_file_end_progress,
                   funny_message_running, used_messages, animation_running,
                   convert_btn, progress_shown, progress_label, dialog,
                   THINKING_MESSAGES, timervars, nbatches,
                   scope, jobvars, control, emitted>>

\* Line 870: stop_funny_messages.
W870(w) ==
    /\ worker[w].pc = "w870"
    /\ funny_message_running' = FALSE
    /\ msg_timers' = Stopped(msg_timers)
    /\ Goto(w, "w873")
    /\ UNCHANGED <<selected_files, output_folder, format_var,
                   simulated_progress, simulated_progress_running,
                   current_file_start_progress, current_file_end_progress,
                   used_messages, animation_running, convert_btn,
                   progress_bar, progress_shown, progress_label, dialog,
                   THINKING_MESSAGES, sim_timers, reset_timers, nbatches,
                   scope, jobvars, control, emitted>>

\* Lines 873-874: the bar is completed.
W873(w) ==
    /\ worker[w].pc = "w873"
    /\ progress_bar' = Den
    /\ progress_label' = [text |-> "Complete", index |-> 0, total |-> 0]
    /\ Goto(w, "w877")
    /\ UNCHANGED <<selected_files, output_folder, format_var,
                   simulated_progress, simulated_progress_running,
                   current_file_start_progress, current_file_end_progress,
                   funny_message_running, used_messages, animation_running,
                   convert_btn, progress_shown, dialog, THINKING_MESSAGES,
                   timervars, nbatches, scope, jobvars, control, emitted>>

\* Line 877: stop_button_animation.
W877(w) ==
    /\ worker[w].pc = "w877"
    /\ animation_running' = FALSE
    /\ Goto(w, "w878")
    /\ UNCHANGED <<selected_files, output_folder, format_var,
                   simulated_progress, simulated_progress_running,
                   current_file_start_progress, current_file_end_progress,
                   funny_message_running, used_messages, convert_btn,
                   progress_bar, progress_shown, progress_label, dialog,
                   THINKING_MESSAGES, timervars, nbatches,
                   scope, jobvars, control, emitted>>

\* Line 878: the Convert button is enabled again.
W878(w) ==
    /\ worker[w].pc = "w878"
    /\ convert_btn' = "normal"
    /\ Goto(w, "w882")
    /\ UNCHANGED <<selected_files, output_folder, format_var,
                   simulated_progress, simulated_progress_running,
                   current_file_start_progress, current_file_end_progress,
                   funny_message_running, used_messages, animation_running,
                   progress_bar, progress_shown, progress_label, dialog,
                   THINKING_MESSAGES, timervars, nbatches,
                   scope, jobvars, control, emitted>>

\* Lines 881-885: the summary is logged, and when something was converted the
\* "Success" message box is opened.
W882(w) ==
    /\ worker[w].pc = "w882"
    /\ worker' = [worker EXCEPT
          ![w].pc = (IF worker[w].success_count > 0 THEN "w885" ELSE "w895"),
          ![w].summary = <<[succeeded |-> worker[w].success_count,
                            total |-> worker[w].total]>>]
    /\ dialog' = IF worker[w].success_count > 0 THEN "Success" ELSE dialog
    /\ UNCHANGED <<appvars, THINKING_MESSAGES, timervars, nbatches,
                   scope, jobvars, control, emitted>>

\* Lines 885-886: messagebox.showinfo returns, when the message box is
\* dismissed.
W885(w) ==
    /\ worker[w].pc = "w885"
    /\ Goto(w, "w895")
    /\ UNCHANGED <<appvars, dialog, THINKING_MESSAGES, timervars, nbatches,
                   scope, jobvars, control, emitted>>

\* Line 895: the delayed reset is scheduled and the thread ends.
W895(w) ==
    /\ worker[w].pc = "w895"
    /\ reset_timers' = reset_timers + 1
    /\ worker' = [worker EXCEPT ![w] = DoneWorker]
    /\ UNCHANGED <<appvars, dialog, THINKING_MESSAGES, sim_timers,
                   msg_timers, nbatches, scope, jobvars, control, emitted>>

ConvertVideos(w) ==
    \/ W818(w) \/ W830(w) \/ W927(w) \/ W951(w) \/ W943(w) \/ W838(w)
    \/ W899(w) \/ W908(w) \/ W917(w) \/ W851(w) \/ W854(w)
    \/ W863(w) \/ W856(w) \/ W866(w) \/ W870(w) \/ W873(w) \/ W877(w)
    \/ W878(w) \/ W882(w) \/ W885(w) \/ W895(w)

Next ==
    \/ StartConversion
    \/ ResetForm
    \/ \E kind \in {"fresh", "stale"} : AnimateSimulatedProgress(kind)
    \/ A912
    \/ \E kind \in {"fresh", "stale"} : ShowFunnyMessage(kind)
    \/ M954
    \/ ResetProgress
    \/ \E w \in Batches : ConvertVideos(w)

\* Sessions of up to MaxBatches batches of up to MaxFiles files.
Spec == Init /\ [][Next]_vars

\* One more batch than Spec.
InitTwo ==
    InitWith(FileLists, 1..PoolSize,
             Scope(MaxBatches + 1, MaxTicks, MaxEmissions))

SpecTwo == InitTwo /\ [][Next]_vars

\* The number of increments that take the simulation from the start of a
\* range to its ceiling.
TicksToCeiling == CeilingPct \div IncrementPct

\* One batch, with every tick up to the ceiling and beyond.
InitCeiling ==
    InitWith(FileLists, 1..PoolSize,
             Scope(1, TicksToCeiling, MaxEmissions))

SpecCeiling == InitCeiling /\ [][Next]_vars

\* Batches of one file with a pool of HistoryCap + 1 messages.  A timer
\* callback finds its flag set only between a start and the call the worker
\* makes itself.
InitPool ==
    InitWith({<<1>>}, 1..(HistoryCap + 1), Scope(MaxBatches + 1, 0, 0))

SpecPool == InitPool /\ [][Next]_vars

\* One batch of up to MaxFiles + 1 files; the estimator's timer fires only
\* around the call the worker makes itself.
LongLists == {[i \in 1..n |-> i] : n \in 0..(MaxFiles + 1)}

InitRanges ==
    InitWith(LongLists, 1..PoolSize, Scope(1, 0, MaxEmissions))

SpecRanges == InitRanges /\ [][Next]_vars

\* The steps of convert_videos that wait for nothing but the thread's turn:
\* every step but the return of the "Success" message box, which waits for
\* the user.  W851 is among them: the engine call returns or raises.
Runs(w) ==
    \/ W818(w) \/ W830(w) \/ W927(w) \/ W951(w) \/ W943(w) \/ W838(w)
    \/ W899(w) \/ W908(w) \/ W917(w) \/ W851(w) \/ W854(w)
    \/ W863(w) \/ W856(w) \/ W866(w) \/ W870(w) \/ W873(w) \/ W877(w)
    \/ W878(w) \/ W882(w) \/ W895(w)

\* Scheduling: a started thread keeps running, and the Tk main loop runs
\* every pending `after` callback, each to its end.  The button commands
\* (start_conversion, reset_form) are the user's and are under no obligation.
Scheduling ==
    /\ \A w \in Batches : WF_vars(Runs(w))
    /\ WF_vars(\E kind \in {"fresh", "stale"} : AnimateSimulatedProgress(kind))
    /\ WF_vars(A912)
    /\ WF_vars(\E kind \in {"fresh", "stale"} : ShowFunnyMessage(kind))
    /\ WF_vars(M954)
    /\ WF_vars(ResetProgress)

\* The sessions of Spec under that scheduling.
SpecLive == Init /\ [][Next]_vars /\ Scheduling

\* The same, with a user who dismisses every "Success" message box.
SpecDismissed == SpecLive /\ \A w \in Batches : WF_vars(W885(w))

\* ---- _normalize_dimension ----

\* What the steps of this part leave alone: the orchestrator's state.
mainvars == <<appvars, dialog, THINKING_MESSAGES, timervars, worker, nbatches,
              scope, emitted, control>>

Max(a, b) == IF a >= b THEN a ELSE b

\* The integer k as a fraction.
Whole(k) == Fraction(k, 1)

\* floor(value).
Floor(value) == value.num \div value.den

\* int(round(value)) (line 965): the nearest integer, a value halfway
\* between two integers going to the even one.
Round(value) ==
    LET below == Floor(value)
        twice == 2 * (value.num - below * value.den)
    IN  IF twice < value.den THEN below
        ELSE IF twice > value.den THEN below + 1
        ELSE IF below % 2 = 0 THEN below ELSE below + 1

\* A normalisation without the minimum of line 968.
NormalizeDimensionNoMinimum(value) ==
    IF Round(value) % 2 /= 0 THEN Round(value) - 1 ELSE Round(value)

\* A normalisation that decrements whatever the parity.
NormalizeDimensionDecrement(value) == Max(2, Round(value) - 1)

\* _normalize_dimension (lines 965-968).
NormalizeDimension(value) ==
    LET even == Round(value)
    IN  Max(2, IF even % 2 /= 0 THEN even - 1 ELSE even)

\* The values tried: every quarter from -MaxValue to MaxValue, so every
\* integer, every half and values on both sides of each half.
MaxValue == 12

Quarters == {Fraction(n, 4) : n \in (0 - 4 * MaxValue)..(4 * MaxValue)}

\* How often the result is fed back.
MaxApplications == 2

InitNormalize ==
    /\ InitMain({<<>>}, 1..PoolSize, Scope(0, 0, 0))
    /\ dimension \in {[value |-> v, results |-> <<>>] : v \in Quarters}
    /\ options = DefaultOptions
    /\ call = NoCall
    /\ handles = NoHandles
    /\ disk = EmptyDisk
    /\ loop = NoLoop
    /\ estimator = NoEstimator

\* _normalize_dimension is called on the value, then on its own result.
ApplyNormalize ==
    /\ Len(dimension.results) < MaxApplications
    /\ dimension' =
          [dimension EXCEPT !.results =
              Append(@, NormalizeDimension(
                            IF dimension.results = <<>> THEN dimension.value
                            ELSE Whole(dimension.results[Len(dimension.results)])))]
    /\ UNCHANGED <<mainvars, estimator, options, call, handles, disk, loop>>

NextNormalize == ApplyNormalize

SpecNormalize == InitNormalize /\ [][NextNormalize]_vars

\* ---- convert_single_video ----

\* Directories are sequences of path components, file names sequences of
\* dot-separated parts (no part empty): a/b/clip.MOV is
\* [dir |-> <<"a", "b">>, name |-> <<"clip", "MOV">>].
PathAt(dir, name) == [dir |-> dir, name |-> name]

\* Path(...).stem (line 983): the name without its last suffix.
Stem(name) == IF Len(name) > 1 THEN SubSeq(name, 1, Len(name) - 1) ELSE name

\* The target formats tried, with str.lower() of each (line 983).
Lower == [f \in {"GIF", "gif", "MP4", "MOV", "MKV", "WEBM", "AVI"} |->
            CASE f = "MP4" -> "mp4"
              [] f = "MOV" -> "mov"
              [] f = "MKV" -> "mkv"
              [] f = "WEBM" -> "webm"
              [] f = "AVI" -> "avi"
              [] OTHER -> "gif"]

\* The output folders tried, with Path(self.output_folder) of each (line
\* 976); "none" is None.
PathOf == [folder \in {"none", "", "out/gifs"} |->
             IF folder = "out/gifs" THEN <<"out", "gifs">> ELSE <<>>]

\* An output directory that is always the source's.
OutputDirOfSource(input_path, folder) == input_path.dir

\* output_dir (lines 975-978): None and the empty string are falsy.
OutputDir(input_path, folder) ==
    IF folder \notin {"none", ""} THEN PathOf[folder] ELSE input_path.dir

\* output_path (lines 983-984).
OutputPath(input_path, output_dir, target_format) ==
    PathAt(output_dir, Stem(input_path.name) \o <<Lower[target_format]>>)

\* output_dir.mkdir(parents=True, exist_ok=True) (line 980): the directory
\* and every directory above it.
MadeDirs(dir) == {SubSeq(dir, 1, n) : n \in 1..Len(dir)}

\* A cap that keeps the height.
CappedSizeSameHeight(clip, max_width) ==
    <<NormalizeDimension(Whole(max_width)), clip.h>>

\* The size of the first resize (lines 999-1000); scale is in hundredths.
ScaledSize(clip, scale) ==
    <<NormalizeDimension(Fraction(clip.w * scale, 100)),
      NormalizeDimension(Fraction(clip.h * scale, 100))>>

\* The size of the second resize (lines 1006-1008): clip.h * ratio with
\* ratio = max_width / clip.w.
CappedSize(clip, max_width) ==
    <<NormalizeDimension(Whole(max_width)),
      NormalizeDimension(Fraction(clip.h * max_width, clip.w))>>

\* codec_map (lines 1020-1026).
codec_map ==
    [f \in {"MP4", "MOV", "MKV", "WEBM", "AVI"} |->
        CASE f = "WEBM" -> "libvpx"
          [] f = "AVI" -> "mpeg4"
          [] OTHER -> "libx264"]

\* codec_map.get(target_format, 'libx264') (line 1028).
Codec(target_format) ==
    IF target_format \in DOMAIN codec_map THEN codec_map[target_format]
    ELSE "libx264"

\* An audio codec that is aac whatever the target.
AudioCodecAac(target_format) == "aac"

\* The audio_codec argument (line 1033).
AudioCodec(target_format) ==
    IF target_format \in {"MP4", "MOV", "MKV"} THEN "aac" ELSE "libvorbis"

\* The handle the engine hands out next, for a clip of the given size.
NewHandle(size) == [id |-> handles.last + 1, w |-> size[1], h |-> size[2]]

\* The engine after handing it out.
Acquired(handle) == [open |-> handles.open \cup {handle}, last |-> handle.id]

\* The files on disk after a write to path.
Written(path, content) ==
    {f \in disk.files : f.path /= path} \cup {[path |-> path, content |-> content]}

\* Lines 838 and 851, then 972-978: the loop calls convert_single_video on
\* its next file, and the output directory is chosen.
Call ==
    /\ call.pc = "none"
    /\ loop.index < Len(selected_files)
    /\ loop' = [loop EXCEPT !.index = @ + 1]
    /\ call' = [NoCall EXCEPT
          !.pc = "j980",
          !.input = selected_files[loop.index + 1],
          !.target_format = format_var,
          !.output_dir = OutputDir(selected_files[loop.index + 1], output_folder)]
    /\ UNCHANGED <<mainvars, estimator, dimension, options, handles, disk>>

\* Line 980: output_dir.mkdir, which makes the directories or raises.
J980 ==
    /\ call.pc = "j980"
    /\ \/ /\ disk' = [disk EXCEPT !.dirs = @ \cup MadeDirs(call.output_dir)]
          /\ call' = [call EXCEPT !.pc = "j983"]
       \/ /\ call' = [call EXCEPT !.pc = "exit", !.raised = TRUE]
          /\ UNCHANGED disk
    /\ UNCHANGED <<mainvars, estimator, dimension, options, handles, loop>>

\* Lines 983-988: the output path.
J983 ==
    /\ call.pc = "j983"
    /\ call' = [call EXCEPT
          !.pc = "j990",
          !.output_path = OutputPath(call.input, call.output_dir,
                                     call.target_format)]
    /\ UNCHANGED <<mainvars, estimator, dimension, options, handles, disk, loop>>

\* Lines 990-992: VideoFileClip opens the source or raises; the target
\* format picks the branch.
J990 ==
    /\ call.pc = "j990"
    /\ \/ LET clip == NewHandle(<<call.input.w, call.input.h>>)
          IN  /\ handles' = Acquired(clip)
              /\ call' = [call EXCEPT
                    !.pc = (IF call.target_format = "GIF" THEN "j998"
                            ELSE "j1030"),
                    !.clip = clip,
                    !.acquired = @ \cup {clip}]
       \/ /\ call' = [call EXCEPT !.pc = "j1037", !.raised = TRUE]
          /\ UNCHANGED handles
    /\ UNCHANGED <<mainvars, estimator, dimension, options, disk, loop>>

\* clip = clip.resize(newsize=size): the engine hands out a clip of that size,
\* to which `clip` is bound, or raises.
Resize(size, to) ==
    \/ LET clip == NewHandle(size)
       IN  /\ handles' = Acquired(clip)
           /\ call' = [call EXCEPT !.pc = to,
                                    !.clip = clip,
                                    !.acquired = @ \cup {clip},
                                    !.sizes = Append(@, size)]
    \/ /\ call' = [call EXCEPT !.pc = "j1037", !.raised = TRUE]
       /\ UNCHANGED handles

\* Lines 994-1001: the resize by scale.
J998 ==
    /\ call.pc = "j998"
    /\ IF options.scale < 100
       THEN Resize(ScaledSize(call.clip, options.scale), "j1003")
       ELSE /\ call' = [call EXCEPT !.pc = "j1003"]
            /\ UNCHANGED handles
    /\ UNCHANGED <<mainvars, estimator, dimension, options, disk, loop>>

\* Lines 1003-1009: the cap on the width.
J1003 ==
    /\ call.pc = "j1003"
    /\ IF ~options.full_width /\ call.clip.w > options.max_width
       THEN Resize(CappedSize(call.clip, options.max_width), "j1011")
       ELSE /\ call' = [call EXCEPT !.pc = "j1011"]
            /\ UNCHANGED handles
    /\ UNCHANGED <<mainvars, estimator, dimension, options, disk, loop>>

\* clip.write_gif / clip.write_videofile to output_path with the codecs
\* given: the file is written, or the engine raises and leaves the path as it
\* was or with a part of the output.
Write(from, codecs) ==
    /\ call.pc = from
    /\ \/ /\ disk' = [disk EXCEPT !.files =
                          Written(call.output_path,
                                  [job |-> loop.index, complete |-> TRUE])]
          /\ call' = [call EXCEPT !.pc = "j1037", !.codecs = codecs]
       \/ /\ disk' \in {disk,
                          [disk EXCEPT !.files =
                              Written(call.output_path,
                                      [job |-> loop.index, complete |-> FALSE])]}
          /\ call' = [call EXCEPT !.pc = "j1037", !.codecs = codecs,
                                   !.raised = TRUE]
    /\ UNCHANGED <<mainvars, estimator, dimension, options, handles, loop>>

\* Lines 1011-1017.
J1011 == Write("j1011", NoCodecs)

\* Lines 1020-1035: the codec and the audio codec follow the target format.
J1030 ==
    Write("j1030", [codec |-> Codec(call.target_format),
                    audio_codec |-> AudioCodec(call.target_format)])

\* Lines 1036-1038: the finally closes the clip that `clip` is bound to.
\* Whether closing a resized clip also releases the clips it was made from
\* is the engine's business: either happens.
J1037 ==
    /\ call.pc = "j1037"
    /\ \E released \in (IF call.clip = None THEN {{}}
                         ELSE {{call.clip}, call.acquired}) :
          handles' = [handles EXCEPT !.open = @ \ released]
    /\ call' = [call EXCEPT !.pc = "exit"]
    /\ UNCHANGED <<mainvars, estimator, dimension, options, disk, loop>>

\* Line 1040 or the exception, then lines 856-858 or 862-864: the call is
\* over and the loop records its outcome.
Return ==
    /\ call.pc = "exit"
    /\ loop' = [loop EXCEPT !.results =
                    Append(@, [outcome |-> (IF call.raised THEN "raise" ELSE "ok"),
                               path |-> call.output_path])]
    /\ call' = NoCall
    /\ UNCHANGED <<mainvars, estimator, dimension, options, handles, disk>>

NextJob ==
    \/ Call \/ J980 \/ J983 \/ J990 \/ J998 \/ J1003 \/ J1011 \/ J1030
    \/ J1037 \/ Return

\* A session of convert_single_video calls: the files, the output folder,
\* the format and the GIF options are picked, and the loop has not started.
InitJob(lists, folders, formats, picked) ==
    /\ selected_files \in lists
    /\ output_folder \in folders
    /\ format_var \in formats
    /\ InitOrchestrator(1..PoolSize, Scope(0, 0, 0))
    /\ dimension = NoDimension
    /\ options \in picked
    /\ call = NoCall
    /\ handles = NoHandles
    /\ disk = EmptyDisk
    /\ loop = NoLoop
    /\ estimator = NoEstimator

\* One file a/b/clip.MOV of each picture size tried.
Sizes == {<<300, 200>>, <<701, 300>>, <<801, 601>>, <<1000, 501>>}

SizedFiles ==
    {[dir |-> <<"a", "b">>, name |-> <<"clip", "MOV">>,
      w |-> size[1], h |-> size[2]] : size \in Sizes}

\* The GIF options tried: scale in hundredths, as the slider gives them
\* (0.5 to 1.0), and widths around those of the files.
Picked ==
    [fps : {15}, scale : {50, 75, 100}, max_width : {350, 400, 700},
     full_width : BOOLEAN]

\* One call of convert_single_video for each file and each choice of options.
InitResize ==
    InitJob({<<file>> : file \in SizedFiles}, {"none"}, {"GIF", "MP4"}, Picked)

SpecResize == InitResize /\ [][NextJob]_vars

\* The source files tried: two directories, names that share a stem.
NamedFiles ==
    {[dir |-> dir, name |-> name, w |-> 801, h |-> 601] :
        dir \in {<<"a">>, <<"a", "b">>},
        name \in {<<"clip", "MOV">>, <<"clip", "avi">>, <<"my", "clip", "mp4">>}}

\* Lists of one file and of two different files.
NamedLists ==
    {<<file>> : file \in NamedFiles} \cup
    {pair \in NamedFiles \X NamedFiles : pair[1] /= pair[2]}

\* Batches of up to two files, with and without an output folder.
InitPaths ==
    InitJob(NamedLists, DOMAIN PathOf, {"GIF", "gif", "MP4"},
            {[fps |-> 15, scale |-> 50, max_width |-> 350, full_width |-> FALSE]})

SpecPaths == InitPaths /\ [][NextJob]_vars

\* One call of convert_single_video for each file and each target format of
\* the selector (VIDEO_FORMATS), and for a target that is in no table.
InitCodecs ==
    InitJob({<<file>> : file \in SizedFiles}, {"none", "out/gifs"}, DOMAIN Lower,
            {DefaultOptions})

SpecCodecs == InitCodecs /\ [][NextJob]_vars

\* ---- the estimator in the arithmetic of the code ----

\* Python floats are IEEE 754 doubles: 53 significant bits, every operation
\* rounded to nearest, ties to even.  A double is [m, e], the number
\* m * 2^e, with m = 0 or 2^52 <= m < 2^53; m is a natural number written in
\* limbs of LimbBits bits, lowest limb first, without leading zero limbs.
\* Signs, subnormals, infinities and NaN do not occur in the progress values.
Precision == 53

LimbBits == 15

RECURSIVE Pow2(_)
Pow2(k) == IF k = 0 THEN 1 ELSE 2 * Pow2(k - 1)

Base == Pow2(LimbBits)

RECURSIVE Strip(_)
Strip(a) ==
    IF a /= <<>> /\ a[Len(a)] = 0 THEN Strip(SubSeq(a, 1, Len(a) - 1)) ELSE a

RECURSIVE BigOf(_)
BigOf(n) == IF n = 0 THEN <<>> ELSE <<n % Base>> \o BigOf(n \div Base)

BigAdd(a, b) ==
    LET limb(x, i) == IF i <= Len(x) THEN x[i] ELSE 0
        RECURSIVE AddFrom(_, _)
        AddFrom(i, carry) ==
            IF i > Len(a) /\ i > Len(b)
            THEN (IF carry = 0 THEN <<>> ELSE <<carry>>)
            ELSE LET sum == limb(a, i) + limb(b, i) + carry
                 IN  <<sum % Base>> \o AddFrom(i + 1, sum \div Base)
    IN  Strip(AddFrom(1, 0))

\* a - b for a >= b.
BigSub(a, b) ==
    LET limb(x, i) == IF i <= Len(x) THEN x[i] ELSE 0
        RECURSIVE SubFrom(_, _)
        SubFrom(i, borrow) ==
            IF i > Len(a) THEN <<>>
            ELSE LET d == limb(a, i) - limb(b, i) - borrow
                 IN  <<IF d < 0 THEN d + Base ELSE d>>
                         \o SubFrom(i + 1, IF d < 0 THEN 1 ELSE 0)
    IN  Strip(SubFrom(1, 0))

\* a * s for a limb s.
BigMulSmall(a, s) ==
    LET RECURSIVE MulFrom(_, _)
        MulFrom(i, carry) ==
            IF i > Len(a) THEN (IF carry = 0 THEN <<>> ELSE <<carry>>)
            ELSE LET p == a[i] * s + carry
                 IN  <<p % Base>> \o MulFrom(i + 1, p \div Base)
    IN  Strip(MulFrom(1, 0))

RECURSIVE BigMul(_, _)
BigMul(a, b) ==
    IF a = <<>> \/ b = <<>> THEN <<>>
    ELSE BigAdd(BigMulSmall(a, Head(b)), <<0>> \o BigMul(a, Tail(b)))

\* Quotient and remainder of a by a limb d > 0.
BigDivSmall(a, d) ==
    LET RECURSIVE DivFrom(_, _)
        DivFrom(i, rem) ==
            IF i = 0 THEN [q |-> <<>>, r |-> rem]
            ELSE LET cur == rem * Base + a[i]
                     rest == DivFrom(i - 1, cur % d)
                 IN  [q |-> Append(rest.q, cur \div d), r |-> rest.r]
    IN  [q |-> Strip(DivFrom(Len(a), 0).q), r |-> DivFrom(Len(a), 0).r]

\* a * 2^k and a \div 2^k.
BigShl(a, k) ==
    IF a = <<>> THEN <<>>
    ELSE [i \in 1..(k \div LimbBits) |-> 0] \o BigMulSmall(a, Pow2(k % LimbBits))

BigShr(a, k) ==
    IF k \div LimbBits >= Len(a) THEN <<>>
    ELSE BigDivSmall(SubSeq(a, (k \div LimbBits) + 1, Len(a)),
                     Pow2(k % LimbBits)).q

BitLength(a) ==
    LET RECURSIVE Bits(_)
        Bits(n) == IF n = 0 THEN 0 ELSE 1 + Bits(n \div 2)
    IN  IF a = <<>> THEN 0 ELSE LimbBits * (Len(a) - 1) + Bits(a[Len(a)])

BigLess(a, b) ==
    LET RECURSIVE LessFrom(_)
        LessFrom(i) ==
            IF i = 0 THEN FALSE
            ELSE IF a[i] /= b[i] THEN a[i] < b[i] ELSE LessFrom(i - 1)
    IN  IF Len(a) /= Len(b) THEN Len(a) < Len(b) ELSE LessFrom(Len(a))

\* The float 0.0.
Zero == [m |-> <<>>, e |-> 0]

\* The double nearest to m * 2^e, ties to even.
RoundToDouble(m, e) ==
    IF m = <<>> THEN Zero
    ELSE LET len == BitLength(m)
             s == len - Precision
             q == BigShr(m, s)
             r == BigSub(m, BigShl(q, s))
             half == BigShl(<<1>>, s - 1)
             up == BigLess(half, r) \/ (r = half /\ q[1] % 2 = 1)
             rounded == IF up THEN BigAdd(q, <<1>>) ELSE q
         IN  IF len <= Precision
             THEN [m |-> BigShl(m, Precision - len), e |-> e - (Precision - len)]
             ELSE IF BitLength(rounded) > Precision
                  THEN [m |-> BigShr(rounded, 1), e |-> e + s + 1]
                  ELSE [m |-> rounded, e |-> e + s]

\* i / n for ints i >= 0 and n > 0 (true division, lines 841, 842): the
\* quotient to 64 binary places and a sticky bit for the remainder, rounded.
FloatDiv(i, n) ==
    LET d == BigDivSmall(BigShl(BigOf(i), 64), n)
    IN  RoundToDouble(BigAdd(BigShl(d.q, 1), BigOf(IF d.r = 0 THEN 0 ELSE 1)),
                      0 - 65)

\* The mantissas of x and y over the lower of their exponents.
Aligned(x, y) ==
    LET e == IF x.e <= y.e THEN x.e ELSE y.e
    IN  [x |-> BigShl(x.m, x.e - e), y |-> BigShl(y.m, y.e - e), e |-> e]

FloatAdd(x, y) ==
    IF x = Zero THEN y
    ELSE IF y = Zero THEN x
    ELSE RoundToDouble(BigAdd(Aligned(x, y).x, Aligned(x, y).y), Aligned(x, y).e)

\* x - y for x >= y.
FloatSub(x, y) ==
    IF y = Zero THEN x
    ELSE RoundToDouble(BigSub(Aligned(x, y).x, Aligned(x, y).y), Aligned(x, y).e)

FloatMul(x, y) == RoundToDouble(BigMul(x.m, y.m), x.e + y.e)

FloatLess(x, y) ==
    IF y = Zero THEN FALSE
    ELSE IF x = Zero THEN TRUE
    ELSE BigLess(Aligned(x, y).x, Aligned(x, y).y)

\* min(x, y) of Python: y when y < x, else x.
FloatMin(x, y) == IF FloatLess(y, x) THEN y ELSE x

\* The literals 0.9 (line 912) and 0.02 (line 916): the doubles nearest to
\* 9/10 and 2/100.
CeilingFactor == FloatDiv(CeilingPct, 100)

IncrementFactor == FloatDiv(IncrementPct, 100)

\* max_progress (line 912).
FloatMaxProgress(start, end) ==
    FloatAdd(start, FloatMul(FloatSub(end, start), CeilingFactor))

\* An increment of twice the size.
FloatIncrementTwice(start, end) ==
    FloatMul(FloatSub(end, start), FloatAdd(IncrementFactor, IncrementFactor))

\* increment (line 916).
FloatIncrement(start, end) == FloatMul(FloatSub(end, start), IncrementFactor)

\* The largest batch the estimator is run on.
MaxTotal == 3

\* The estimator before the first file of a batch of total files (lines
\* 818-827): `pending` counts the after(150, ...) callbacks not yet fired and
\* `increments` the times line 917 has run for the current file.
EstimatorOf(total) ==
    [total |-> total, index |-> 0,
     simulated_progress_running |-> FALSE,
     current_file_start_progress |-> Zero,
     current_file_end_progress |-> Zero,
     simulated_progress |-> Zero,
     progress_bar |-> Zero,
     pending |-> 0, increments |-> 0]

\* animate_simulated_progress (lines 906-923) on the estimator e.
Animate(e) ==
    LET start == e.current_file_start_progress
        end == e.current_file_end_progress
        max_progress == FloatMaxProgress(start, end)
        below == FloatLess(e.simulated_progress, max_progress)
        raised == FloatMin(FloatAdd(e.simulated_progress,
                                    FloatIncrement(start, end)),
                           max_progress)
    IN  IF ~e.simulated_progress_running THEN e
        ELSE [e EXCEPT
                !.simulated_progress = IF below THEN raised ELSE @,
                !.progress_bar = IF below THEN raised ELSE @,
                !.increments = IF below THEN @ + 1 ELSE @,
                !.pending = @ + 1]

\* Lines 838-849 and 899-900: the next file's range, the flag, and the call
\* of animate_simulated_progress that start_simulated_progress makes.
StartEstimator ==
    /\ estimator.total > 0
    /\ ~estimator.simulated_progress_running
    /\ estimator.index < estimator.total
    /\ estimator' =
          Animate([estimator EXCEPT
              !.index = @ + 1,
              !.current_file_start_progress =
                  FloatDiv(estimator.index, estimator.total),
              !.current_file_end_progress =
                  FloatDiv(estimator.index + 1, estimator.total),
              !.simulated_progress =
                  FloatDiv(estimator.index, estimator.total),
              !.simulated_progress_running = TRUE,
              !.increments = 0])
    /\ UNCHANGED <<mainvars, dimension, options, call, handles, disk, loop>>

\* A pending after(150, animate_simulated_progress) fires.
TickEstimator ==
    /\ estimator.total > 0
    /\ estimator.pending > 0
    /\ estimator' = Animate([estimator EXCEPT !.pending = @ - 1])
    /\ UNCHANGED <<mainvars, dimension, options, call, handles, disk, loop>>

\* Lines 854-860 or 863-866: the engine call is over, the flag is cleared
\* and the bar is set to the end of the range (index / total).
StopEstimator ==
    /\ estimator.total > 0
    /\ estimator.simulated_progress_running
    /\ estimator' = [estimator EXCEPT
          !.simulated_progress_running = FALSE,
          !.progress_bar = FloatDiv(estimator.index, estimator.total)]
    /\ UNCHANGED <<mainvars, dimension, options, call, handles, disk, loop>>

NextEstimator == StartEstimator \/ TickEstimator \/ StopEstimator

\* One batch of each size up to MaxTotal.
InitEstimator ==
    /\ InitMain({<<>>}, 1..PoolSize, Scope(0, 0, 0))
    /\ dimension = NoDimension
    /\ options = DefaultOptions
    /\ call = NoCall
    /\ handles = NoHandles
    /\ disk = EmptyDisk
    /\ loop = NoLoop
    /\ estimator \in {EstimatorOf(total) : total \in 1..MaxTotal}

SpecEstimator == InitEstimator /\ [][NextEstimator]_vars

\* ---- the claims ----

\* Where convert_videos is: in its loop body, after its loop, and anywhere
\* before line 877 has run.
InJob == {"w899", "w908", "w917", "w851", "w854", "w856", "w863", "w866"}

AfterLoop == {"w870", "w873", "w877", "w878", "w882", "w885", "w895"}

BeforeStopButtonAnimation ==
    {"w818", "w830", "w927", "w951", "w943", "w838", "w870", "w873", "w877"}
        \cup InJob

Running(w) == worker[w].pc \in BeforeStopButtonAnimation

Attempted(w) ==
    [i \in 1..Len(worker[w].outcomes) |-> worker[w].outcomes[i].file]

Count(w, outcome) ==
    Cardinality({i \in 1..Len(worker[w].outcomes) :
                    worker[w].outcomes[i].outcome = outcome})

Publishing == BeforeStopButtonAnimation \ {"w818", "w877"}

\* C3: when job i is over (the loop is about to start job i+1 or to leave),
\* the progress bar shows exactly i/N, whether the job returned or raised and
\* whatever timer callbacks ran.
C3_LastValueIsFraction ==
    \A w \in Batches :
        (worker[w].pc = "w838" /\ worker[w].index >= 1) =>
            progress_bar * worker[w].total = worker[w].index * Den

\* C4: a value that animate_simulated_progress publishes, from the timer or
\* from the call start_simulated_progress makes, is at most
\* start + 0.9 * (end - start) of the current range, and so below end.
C4_BelowCeiling ==
    [][((A912 \/ \E w \in Batches : W917(w))
            /\ simulated_progress' /= simulated_progress) =>
          (/\ progress_bar' = simulated_progress'
           /\ 100 * (progress_bar' - current_file_start_progress) <=
                  90 * (current_file_end_progress - current_file_start_progress)
           /\ progress_bar' < current_file_end_progress)]_vars

\* The second job of a batch with the published simulation at its ceiling.
C4_Witness ==
    /\ current_file_start_progress > 0
    /\ progress_bar = simulated_progress
    /\ 100 * (progress_bar - current_file_start_progress) =
           90 * (current_file_end_progress - current_file_start_progress)
    /\ \E w \in Batches : worker[w].pc = "w851" /\ worker[w].index = 2

\* C5: while a batch is between its reset of the bar and its final 1.0, no
\* step lowers the value on the progress bar.
C5_ProgressNonDecreasing ==
    [][(\E w \in Batches : worker[w].pc \in Publishing) =>
          progress_bar' >= progress_bar]_vars

\* C6: an estimator tick scheduled before a stop_simulated_progress, once it
\* fires, changes neither simulated_progress nor the progress bar and
\* schedules no further tick.
C6_StaleTickNoOp ==
    [][(A912 /\ control.kind = "stale") =>
          UNCHANGED <<simulated_progress, progress_bar, sim_timers>>]_vars

\* C7: with more than HistoryCap messages in the pool, no emission repeats a
\* message of the HistoryCap emissions before it; in particular none repeats
\* the emission just before it.
C7_NoRepeatInWindow ==
    [][((M954 \/ \E w \in Batches : W943(w))
            /\ Cardinality(THINKING_MESSAGES) > HistoryCap) =>
          emitted' /= emitted]_vars

\* C8: a rotator emission scheduled before a stop_funny_messages, once it
\* fires, emits nothing, leaves the history alone and schedules no further
\* emission.
C8_StaleEmissionNoOp ==
    [][(M954 /\ control.kind = "stale") =>
          UNCHANGED <<used_messages, emitted, msg_timers>>]_vars

\* C9: at most one thread is inside convert_videos, from its first line to
\* the scheduling of reset_progress.
C9_OneWorker ==
    Cardinality({w \in Batches : worker[w].pc \notin {"none", "done"}}) <= 1

\* C10: reset_form, run while a batch is between start_conversion and line
\* 877, shows the warning and changes neither the file list, the output
\* folder, the options, the progress, the message history, the flags nor the
\* pending timers.
C10_ResetRejectedWhileRunning ==
    [][(ResetForm /\ \E w \in Batches : Running(w)) =>
          (dialog' = "Conversion running"
              /\ UNCHANGED <<appvars, timervars>>)]_vars

\* The warning on screen in a gap between two files, the estimator's flag
\* cleared.
C10_Witness ==
    /\ dialog = "Conversion running"
    /\ ~simulated_progress_running
    /\ \E w \in Batches :
          /\ worker[w].pc = "w838"
          /\ worker[w].index >= 1
          /\ worker[w].index < Len(worker[w].batch)

\* C11: start_conversion with an empty file list shows the "No Files" warning
\* and returns: it starts no thread, schedules no timer callback and changes
\* neither the progress, the flags, the Convert button nor the message history.
C11_EmptyListRejected ==
    [][(StartConversion /\ selected_files = <<>>) =>
          (/\ dialog' = "No Files"
           /\ UNCHANGED <<appvars, timervars, worker, nbatches>>)]_vars

\* The warning shown for a list that reset_form emptied after a batch.
C11_Witness ==
    /\ dialog = "No Files"
    /\ selected_files = <<>>
    /\ nbatches = 1
    /\ \A w \in Batches : worker[w].pc \in {"none", "done"}

\* No thread is inside convert_videos, no reset_progress is pending, the
\* progress display is cleared and every running flag is down.
BackInIdle ==
    /\ \A w \in Batches : worker[w].pc \in {"none", "done"}
    /\ reset_timers = 0
    /\ progress_bar = 0
    /\ ~progress_shown
    /\ progress_label = NoLabel
    /\ ~simulated_progress_running
    /\ ~funny_message_running
    /\ ~animation_running

\* C12: when every engine call returns or raises, a started batch eventually
\* stops the rotator, then publishes progress 1.0, then publishes its summary,
\* and eventually its delayed reset has fired: the progress display is
\* cleared, no thread is left and the running flags are down.
C12_BatchEventuallyCleared ==
    \A w \in Batches :
        /\ (worker[w].pc = "w818") ~>
              (worker[w].pc = "w873" /\ ~funny_message_running)
        /\ (worker[w].pc = "w873") ~>
              (worker[w].pc = "w877" /\ progress_bar = Den)
        /\ (worker[w].pc = "w877") ~> (worker[w].summary /= <<>>)
        /\ (worker[w].summary /= <<>>) ~> BackInIdle

IsWhole(value) == value.num % value.den = 0

\* C13: whatever the value, zero, negative and halfway values included,
\* _normalize_dimension returns an even integer that is at least 2.
C13_EvenAtLeastTwo ==
    \A i \in 1..Len(dimension.results) :
        /\ dimension.results[i] \in Int
        /\ dimension.results[i] % 2 = 0
        /\ dimension.results[i] >= 2

\* -1.5, halfway between two integers and negative, has been normalised.
C13_Witness ==
    /\ dimension.value = Fraction(-6, 4)
    /\ Len(dimension.results) >= 1
    /\ dimension.results[1] = 2

\* C14: _normalize_dimension returns an even integer k >= 2 unchanged, and
\* applied to its own result returns that result.
C14_IdentityOnEvenAndIdempotent ==
    /\ (/\ Len(dimension.results) >= 1
        /\ IsWhole(dimension.value)
        /\ Floor(dimension.value) % 2 = 0
        /\ Floor(dimension.value) >= 2) =>
            dimension.results[1] = Floor(dimension.value)
    /\ Len(dimension.results) >= 2 => dimension.results[2] = dimension.results[1]

\* 4.5, which normalises to 4, and 4 normalised again.
C14_Witness ==
    /\ dimension.value = Fraction(18, 4)
    /\ dimension.results = <<4, 4>>

\* C15: in a GIF job the clip is first resized by scale, if scale < 1, to the
\* normalised scaled width and height, and then, if full width is off and the
\* width it has by then exceeds max_width, to the normalised max_width and
\* the normalised height of that clip times max_width over its width.  A
\* source of 801x601 with scale 0.5 and max_width 350 is resized to 400x300
\* and then to 350x262.
C15_ResizeStagesCompose ==
    LET first ==
            IF options.scale < 100
            THEN <<<<NormalizeDimension(Fraction(call.input.w * options.scale, 100)),
                     NormalizeDimension(Fraction(call.input.h * options.scale, 100))>>>>
            ELSE <<>>
        current == IF first = <<>> THEN <<call.input.w, call.input.h>>
                   ELSE first[1]
        second ==
            IF ~options.full_width /\ current[1] > options.max_width
            THEN <<<<NormalizeDimension(Whole(options.max_width)),
                     NormalizeDimension(Fraction(current[2] * options.max_width,
                                                 current[1]))>>>>
            ELSE <<>>
    IN  /\ call.pc = "j1003" => call.sizes = first
        /\ call.pc = "j1011" => call.sizes = first \o second
        /\ (/\ call.pc = "j1011"
            /\ call.input.w = 801 /\ call.input.h = 601
            /\ options.scale = 50 /\ options.max_width = 350
            /\ ~options.full_width) =>
                call.sizes = <<<<400, 300>>, <<350, 262>>>>

\* The 801x601 source resized to 400x300 and then to 350x262, about to be
\* written.
C15_Witness ==
    /\ call.pc = "j1011"
    /\ call.input.w = 801 /\ call.input.h = 601
    /\ call.sizes = <<<<400, 300>>, <<350, 262>>>>
    /\ call.clip.w = 350 /\ call.clip.h = 262

\* Where convert_single_video is once output_path is set.
PathSet == {"j990", "j998", "j1003", "j1011", "j1030"}

\* C16: the output path is the output directory joined with the source's
\* stem, a dot and the target format in lower case; the output directory is
\* the output folder if one is set and the source's directory otherwise, and
\* it exists, with the directories above it, before the source is opened.
\* a/b/clip.MOV with target gif and no output folder gives a/b/clip.gif.
C16_OutputPath ==
    LET dir == IF output_folder \in {"none", ""} THEN call.input.dir
               ELSE PathOf[output_folder]
    IN  /\ call.pc \in PathSet =>
              /\ call.output_path.dir = dir
              /\ call.output_path.name =
                    Stem(call.input.name) \o <<Lower[call.target_format]>>
        /\ (call.pc = "j990" \/ call.acquired /= {}) =>
              \A n \in 1..Len(dir) : SubSeq(dir, 1, n) \in disk.dirs
        /\ (/\ call.pc \in PathSet
            /\ call.input.dir = <<"a", "b">>
            /\ call.input.name = <<"clip", "MOV">>
            /\ call.target_format = "gif"
            /\ output_folder = "none") =>
                call.output_path = [dir |-> <<"a", "b">>, name |-> <<"clip", "gif">>]
        /\ (/\ call.pc \in PathSet
            /\ call.input.name = <<"my", "clip", "mp4">>
            /\ call.target_format = "GIF"
            /\ output_folder = "out/gifs") =>
                call.output_path =
                    [dir |-> <<"out", "gifs">>, name |-> <<"my", "clip", "gif">>]

\* a/b/clip.MOV opened for target gif with no output folder: a/b/clip.gif in
\* the existing directory a/b.
C16_Witness ==
    /\ call.clip /= None
    /\ call.input.dir = <<"a", "b">>
    /\ call.input.name = <<"clip", "MOV">>
    /\ call.target_format = "gif"
    /\ output_folder = "none"
    /\ call.output_path = [dir |-> <<"a", "b">>, name |-> <<"clip", "gif">>]
    /\ {<<"a">>, <<"a", "b">>} \subseteq disk.dirs

\* C17: when convert_single_video is over, returning or raising, every clip
\* it acquired, from VideoFileClip and from each resize, has been closed.
C17_HandlesReleased ==
    call.pc = "exit" => call.acquired \cap handles.open = {}

\* C19: when the loop of a batch is over, the output of every file whose
\* call returned is on disk, complete and as that call wrote it.
C19_OutputsKept ==
    (call.pc = "none" /\ loop.index = Len(selected_files)) =>
        \A i \in 1..Len(loop.results) :
            loop.results[i].outcome = "ok" =>
                [path |-> loop.results[i].path,
                 content |-> [job |-> i, complete |-> TRUE]] \in disk.files

C20_CallbacksOnControlLoop ==
    \A w \in Batches : worker[w].pc \notin {"w917", "w943"}

\* The table of C21 in the engine's encoder names (h264 is libx264, vp8 is
\* libvpx, vorbis is libvorbis), but for the audio codec of AVI.
TableBut(avi_audio) ==
    [f \in {"MP4", "MOV", "MKV", "WEBM", "AVI"} |->
        CASE f = "WEBM" -> [codec |-> "libvpx", audio_codec |-> "libvorbis"]
          [] f = "AVI" -> [codec |-> "mpeg4", audio_codec |-> avi_audio]
          [] OTHER -> [codec |-> "libx264", audio_codec |-> "aac"]]

\* write_videofile has been called for one of the five video targets.
VideoWritten ==
    /\ call.pc \in {"j1037", "exit"}
    /\ call.codecs /= NoCodecs
    /\ call.target_format \in {"MP4", "MOV", "MKV", "WEBM", "AVI"}

\* C21 as stated: MP4, MOV and MKV are written with h264 and aac, WEBM with
\* vp8 and vorbis, AVI with mpeg4 and, for audio, the fallback h264.
C21_CodecTableFallbackH264 ==
    VideoWritten => call.codecs = TableBut("libx264")[call.target_format]

\* C21 as amended: MP4, MOV and MKV are written with h264 and aac, WEBM with
\* vp8 and vorbis, AVI with mpeg4 and vorbis; the GIF writer is given no
\* codec.
C21_CodecTable ==
    /\ VideoWritten => call.codecs = TableBut("libvorbis")[call.target_format]
    /\ call.pc \in {"j1037", "exit"} /\ call.target_format = "GIF"
           => call.codecs = NoCodecs

\* An AVI job has been written with mpeg4 and vorbis and returns.
C21_Witness ==
    /\ call.pc = "exit"
    /\ ~call.raised
    /\ call.target_format = "AVI"
    /\ call.codecs = [codec |-> "mpeg4", audio_codec |-> "libvorbis"]
    /\ \E f \in disk.files : f.path = call.output_path /\ f.content.complete

\* start_simulated_progress is running on worker w: lines 899-900 and what
\* line 900 calls.
InStart == {"w899", "w908", "w917"}

\* C22: starting the estimator sets the running flag and schedules the first
\* tick and does nothing else: no step of start_simulated_progress moves the
\* simulated value off range.start or publishes a value, and when it returns
\* a tick is pending.
C22_StartOnlySchedules ==
    [][\A w \in Batches :
          worker[w].pc \in InStart /\ worker'[w].pc /= worker[w].pc
              => /\ simulated_progress' = simulated_progress
                 /\ progress_bar' = progress_bar
                 /\ worker'[w].pc = "w851" => sim_timers'.fresh > 0]_vars

\* The estimator in doubles is at the ceiling of the current file's range.
AtCeiling ==
    ~FloatLess(estimator.simulated_progress,
               FloatMaxProgress(estimator.current_file_start_progress,
                                estimator.current_file_end_progress))

\* C23 as stated: the simulated value of a file is at its ceiling after
\* exactly 45 increments from range.start, and not before.
C23_CeilingAfter45 ==
    estimator.total > 0 /\ estimator.index > 0
        => (AtCeiling <=> estimator.increments = TicksToCeiling)

\* What an execution of animate_simulated_progress does to the estimator in
\* doubles, from before to after.
TickEffect(before, after) ==
    LET start == before.current_file_start_progress
        end == before.current_file_end_progress
        max_progress == FloatMaxProgress(start, end)
    IN  IF FloatLess(before.simulated_progress, max_progress)
        THEN /\ after.simulated_progress =
                    FloatMin(FloatAdd(before.simulated_progress,
                                      FloatIncrement(start, end)),
                             max_progress)
             /\ FloatLess(before.simulated_progress, after.simulated_progress)
             /\ ~FloatLess(max_progress, after.simulated_progress)
             /\ after.progress_bar = after.simulated_progress
             /\ after.increments = before.increments + 1
        ELSE /\ after.simulated_progress = before.simulated_progress
             /\ after.progress_bar = before.progress_bar
             /\ after.increments = before.increments

\* C23 as amended: a tick that fires while running and below the ceiling
\* start + 0.9*(end-start) sets the simulated value to the rounded sum of
\* the value and 0.02*(end-start), clamped to the ceiling, which is above
\* the old value, and publishes it; the ceiling is reached after 45 or 46
\* increments from range.start; a tick that fires at the ceiling publishes
\* nothing, leaves the simulated value unchanged and reschedules.
C23_TickArithmetic ==
    /\ [](estimator.total > 0 /\ estimator.index > 0 =>
            /\ estimator.increments <= TicksToCeiling + 1
            /\ AtCeiling => estimator.increments >= TicksToCeiling
            /\ estimator.increments = TicksToCeiling + 1 => AtCeiling)
    /\ [][TickEstimator /\ estimator.simulated_progress_running =>
            /\ TickEffect(estimator, estimator')
            /\ estimator'.pending = estimator.pending]_vars

\* The first file of three is at its ceiling after 46 increments, and a tick
\* is pending.
C23_Witness ==
    /\ estimator.total = 3
    /\ estimator.index = 1
    /\ estimator.simulated_progress_running
    /\ AtCeiling
    /\ estimator.increments = TicksToCeiling + 1
    /\ estimator.progress_bar = estimator.simulated_progress
    /\ estimator.pending > 0

\* C24: simulated_progress equals range.start when a job starts, no step
\* lowers it while the job runs, and when the job is over, on success and on
\* failure, it equals range.end.
C24_SimulatedProgressLifecycle ==
    /\ [](\A w \in Batches :
            /\ worker[w].pc = "w899" =>
                  simulated_progress = current_file_start_progress
            /\ worker[w].pc = "w838" /\ worker[w].index >= 1 =>
                  simulated_progress = current_file_end_progress)
    /\ [][(\E w \in Batches :
              worker[w].pc \in InJob /\ worker'[w].pc \in InJob) =>
            simulated_progress' >= simulated_progress]_vars

\* C25: every value published to the progress bar lies in [0, 1], and a
\* value published while job i of N is the current job of a batch lies in
\* [(i-1)/N, i/N].
C25_PublishedInRange ==
    [][progress_bar' /= progress_bar =>
          /\ 0 <= progress_bar' /\ progress_bar' <= Den
          /\ \A w \in Batches :
                worker[w].pc \in InJob /\ worker'[w].pc \in InJob =>
                    /\ ProgressAt(worker[w].index - 1, worker[w].total)
                           <= progress_bar'
                    /\ progress_bar'
                           <= ProgressAt(worker[w].index, worker[w].total)]_vars

\* No message occurs twice in the history.
NoDuplicates(used) == \A i, j \in 1..Len(used) : used[i] = used[j] => i = j

\* C26: after every get_random_message call the history holds at most 10
\* entries and no duplicates and is the most recent emissions in emission
\* order, the oldest evicted first; the message chosen was not in the history
\* before the call, unless the history held the whole pool, and then the
\* history is cleared first and holds the chosen message alone.
C26_HistoryDiscipline ==
    /\ [](Len(used_messages) <= HistoryCap /\ NoDuplicates(used_messages))
    /\ [][(M954 \/ \E w \in Batches : W943(w)) =>
            LET message == emitted'[1]
            IN  IF Available(used_messages) = {}
                    /\ \A w \in Batches : worker[w].pc /= "w943"
                THEN used_messages' = <<message>>
                ELSE /\ message \notin Range(used_messages)
                     /\ used_messages' = Remember(used_messages, message)]_vars

\* Where convert_videos is between its start_funny_messages (line 833) and
\* its stop_funny_messages (line 870).
RotatorOn == {"w951", "w943", "w838", "w870"} \cup InJob

\* C27: the rotator's flag is set by line 833 alone, once per batch, with
\* the history cleared and before the first job, and cleared by line 870
\* alone, after the last job; in between it stays set, whatever the jobs do.
C27_RotatorOncePerBatch ==
    /\ [](funny_message_running <=>
              \E w \in Batches : worker[w].pc \in RotatorOn)
    /\ [][funny_message_running' /= funny_message_running =>
            \E w \in Batches :
                \/ /\ worker[w].pc = "w927" /\ worker'[w].pc = "w951"
                   /\ worker[w].index = 0
                   /\ used_messages = <<>>
                   /\ funny_message_running'
                \/ /\ worker[w].pc = "w870" /\ worker'[w].pc = "w873"
                   /\ worker[w].index = worker[w].total
                   /\ ~funny_message_running']_vars

\* The second file of a batch is about to start after the first failed, and
\* the rotator is still running.
C27_Witness ==
    /\ funny_message_running
    /\ \E w \in Batches :
          /\ worker[w].pc = "w899"
          /\ worker[w].index = 2
          /\ worker[w].outcomes /= <<>>
          /\ worker[w].outcomes[1].outcome = "raise"

\* The callbacks of a timer loop that are scheduled and have not fired.
Pending(timers) == timers.fresh + timers.stale

\* C28: of each of the two timer loops, at most one callback is pending at
\* any time.
C28_OnePendingCallback ==
    /\ Pending(sim_timers) <= 1
    /\ Pending(msg_timers) <= 1

\* C29: reset_progress, scheduled at the end of a batch, fires only while no
\* batch is running: it never zeroes or hides the progress bar or clears the
\* label of a later batch.
C29_ResetOutsideBatches ==
    [][ResetProgress => ~\E w \in Batches : Running(w)]_vars

\* C30: the clip a GIF job hands to write_gif has an even width and an even
\* height, both at least 2, and, when full width is off, a width of at most
\* max_width.
C30_GifClipCodecSafe ==
    call.pc = "j1011" =>
        /\ call.clip.w % 2 = 0 /\ call.clip.w >= 2
        /\ call.clip.h % 2 = 0 /\ call.clip.h >= 2
        /\ ~options.full_width => call.clip.w <= options.max_width

\* C31: the output path a job resolves is never the path of the source it
\* reads, whatever the source's extension, the target format and the output
\* folder, so the engine never writes to the file it has open.
C31_OutputNotSource ==
    call.pc \in PathSet =>
        call.output_path /= PathAt(call.input.dir, call.input.name)

====
